---- MODULE Spec2Model ----
\* Model of the IOTech C utilities scheduler (src/src/c/scheduler.c) and of
\* the strictly increasing clock iot_time_nsecs (src/include/iot/os/linux.h).
\*
\* Time is counted in model ticks of one nanosecond; every value that the
\* model lets a clock take is far below 2^64, so the uint64_t arithmetic of
\* the source never wraps in the modelled runs.
EXTENDS Integers, Sequences, FiniteSets, TLC

\* ---------------------------------------------------------------- bounds
\* Number of schedules that can be created.
NSched == 2
\* Largest value of the atomic lasttime: it bounds the clock reads of a run.
MaxTime == 5
\* Largest start offset passed to iot_schedule_create.
MaxOffset == 1
\* Largest period passed to iot_schedule_create (the smallest is 1).
MaxPeriod == 1
\* Largest repeat count passed to iot_schedule_create (0 = infinite).
MaxRepeat == 2
\* Number of threads calling iot_time_nsecs concurrently.
NThreads == 2
\* Number of iot_time_nsecs calls each thread makes.
MaxCalls == 2
\* Largest value CLOCK_REALTIME reports.
MaxWall == 2
\* IOT_SCHEDULER_DEFAULT_WAKE (24 hours of nanoseconds), in model ticks.
DefaultWake == 3
\* Number of component names (and of container names).
NNames == 2
\* Number of component holders a container can have at a time.
MaxHolders == 3
\* Number of iot_container_t objects that can be allocated at a time.
MaxConts == 3

\* ------------------------------------------------------------- constants
IOT_BILLION == 1000000000
NULL == -1

\* Schedule ids: SpecOrder creates one schedule more than Spec.
Sched == 0 .. NSched
Threads == 1 .. NThreads

VARIABLES
  lasttime,    \* static atomic lasttime of iot_time_nsecs
  state,       \* scheduler->component.state
  mutex,       \* scheduler->component.mutex: "free" or its holder
  signalled,   \* a signal/broadcast reached the dispatcher's timed wait
  schd_time,   \* scheduler->schd_time (struct timespec)
  queue,       \* scheduler->queue: start key -> schedule
  idle,        \* scheduler->idle: the schedules keyed by id
  sch,         \* the iot_schedule_t objects, by id
  next_id,     \* static atomic schedule_id_counter
  dpc,         \* position of iot_scheduler_thread
  current,     \* local variable current of iot_scheduler_thread
  fpc,         \* position of iot_scheduler_free
  gh,          \* history, per schedule (not program state)
  order,       \* history: schedules of the queue in the order of their queue_add
  ret,         \* history: the last iot_schedule_add / iot_schedule_remove call
               \* and the value it returned, in the runs that observe it
  tpc,         \* position of each thread inside iot_time_nsecs
  tresult,     \* local variable result of iot_time_nsecs, per thread
  tprev,       \* local variable prev of iot_time_nsecs, per thread
  tfloor,      \* history: largest value returned before the thread's call began
  tcalls,      \* history: calls completed per thread
  returned,    \* history: values returned by completed iot_time_nsecs calls
  cont,        \* an iot_container_t: its holder list, and iot_load_in_progress
  cfg,         \* iot_config and what it loads
  clog,        \* history: the last call on the container
  reg,         \* iot_containers and iot_container_mutex
  rthr,        \* position of each thread in iot_container_alloc / _free
  rlog         \* history: containers allocated and not freed, last alloc

schedVars == <<state, mutex, signalled, schd_time, queue, idle, sch, next_id,
               dpc, current, fpc, gh, order, ret>>
clockVars == <<tpc, tresult, tprev, tfloor, tcalls, returned>>
contVars == <<cont, cfg, clog, reg, rthr, rlog>>
vars == <<lasttime, schedVars, clockVars, contVars>>

\* ------------------------------------------------------------ utilities
Min(S) == CHOOSE x \in S : \A y \in S : x <= y
Max(S) == CHOOSE x \in S : \A y \in S : y <= x
Range(f) == {f[x] : x \in DOMAIN f}
SeqRemove(q, s) == SelectSeq(q, LAMBDA x : x # s)
Pos(q, s) == CHOOSE i \in 1 .. Len(q) : q[i] = s
Inc2(n) == IF n < 2 THEN n + 1 ELSE 2

\* ---------------------------------------------------------------- clock
\* CLOCK_REALTIME is an input of every read: it is not monotonic, and may
\* stall, advance or be set back between two reads. clock_gettime reports
\* w; a failing clock_gettime makes iot_time_nanosecs return 0, which is
\* one of the values of w.
Walls == 0 .. MaxWall
iot_time_nanosecs(w) == w

\* The body of the do loop of iot_time_nsecs: result, bumped past prev.
BumpResultOffByOne(result, prev) == IF result < prev THEN prev + 1 ELSE result
BumpResult(result, prev) == IF result <= prev THEN prev + 1 ELSE result

\* iot_time_nsecs without its guard against lasttime: the wall clock as read.
TimeNsecs_WallClock(w, last) == iot_time_nanosecs(w)

\* iot_time_nsecs when no other call interleaves: the compare-exchange
\* succeeds on prev = lasttime, and the call returns max (wall, lasttime + 1).
TimeNsecs(w, last) == BumpResult(iot_time_nanosecs(w), last)

\* nsToTimespec and the comparison pthread_cond_timedwait makes.
nsToTimespec(ns) == [tv_sec |-> ns \div IOT_BILLION, tv_nsec |-> ns % IOT_BILLION]
TimespecLE(a, b) ==
  \/ a.tv_sec < b.tv_sec
  \/ a.tv_sec = b.tv_sec /\ a.tv_nsec <= b.tv_nsec

\* --------------------------------------------------------- the two maps
\* iot_data_map_add: insert, or replace the value of an existing key.
MapAdd(m, k, v) == [x \in (DOMAIN m) \cup {k} |-> IF x = k THEN v ELSE m[x]]
\* iot_data_map_remove: remove the key if present.
MapRemove(m, k) == [x \in (DOMAIN m) \ {k} |-> m[x]]
EmptyMap == [x \in {} |-> NULL]

iot_schedule_update_start(S, s, start) == [S EXCEPT ![s].start = start]

iot_schedule_queue_next(q) == IF DOMAIN q = {} THEN NULL ELSE q[Min(DOMAIN q)]

iot_schedule_is_next(q, s) == iot_schedule_queue_next(q) = s

\* The while loop of iot_schedule_queue_add: the first free key from start up.
\* iot_schedule_queue_add without its while loop: the key is used as it is.
UniqueStart_NoBump(q, start) == start

RECURSIVE UniqueStart(_, _)
UniqueStart(q, start) ==
  IF start \in DOMAIN q THEN UniqueStart(q, start + 1) ELSE start

\* iot_schedule_queue_add: the maps and schedules after the call, and its result.
iot_schedule_queue_add(q, S, s) ==
  LET st == UniqueStart(q, S[s].start)
      q2 == MapAdd(q, st, s)
  IN  [queue |-> q2,
       sch   |-> [S EXCEPT ![s].start = st, ![s].scheduled = TRUE],
       front |-> iot_schedule_is_next(q2, s)]

\* A variant that forgets to clear the flag.
iot_schedule_idle_add_KeepsFlag(I, S, s) == [idle |-> I \cup {s}, sch |-> S]

iot_schedule_idle_add(I, S, s) ==
  [idle |-> I \cup {s}, sch |-> [S EXCEPT ![s].scheduled = FALSE]]

\* A variant that leaves the entry in the idle map.
iot_schedule_idle_remove_Forgets(I, s) == I

iot_schedule_idle_remove(I, s) == I \ {s}

\* iot_schedule_queue_remove that leaves the entry in the map.
iot_schedule_queue_remove_Keeps(q, S, s) == q

iot_schedule_queue_remove(q, S, s) == MapRemove(q, S[s].start)

iot_schedule_queue_update(q, S, s, next) ==
  iot_schedule_queue_add(iot_schedule_queue_remove(q, S, s),
                         iot_schedule_update_start(S, s, next), s)

\* ---------------------------------------------------------------- state
NoSchedule ==
  [status |-> "none", start |-> 0, period |-> 0, repeat |-> 0,
   scheduled |-> FALSE, pool |-> FALSE, dropped |-> 0]

NoHistory ==
  [nominal |-> 0, initRepeat |-> 0, attempts |-> 0, refused |-> 0,
   removed |-> FALSE, freed |-> 0]

\* Return values are not observed / no call has returned yet.
NotObserved ==
  [op |-> "off", s |-> NULL, val |-> FALSE, at |-> 0, flip |-> FALSE,
   sig |-> FALSE]
NoCall ==
  [op |-> "none", s |-> NULL, val |-> FALSE, at |-> 0, flip |-> FALSE,
   sig |-> FALSE]

\* ------------------------------------------------- container: the data
\* The component container (scheduler.c, lines 405-953). Component names
\* and container names are 1 .. NNames; the container configuration lists
\* its entries in ascending order of name, and every component type has
\* its own factory.
Names == 1 .. NNames
HolderIds == 1 .. MaxHolders
ContIds == 1 .. MaxConts

\* What the configuration holds for a component name:
\*   "absent"     no entry in the container configuration
\*   "nofactory"  an entry whose type has no factory, registered or loadable
\*   "noconfig"   the component's own configuration is missing or unparsable
\*   "fails"      the factory's config_fn returns NULL
\*   "ok"         the factory's config_fn returns a component
Kinds == {"absent", "nofactory", "noconfig", "fails", "ok"}

\* The names that a component's config_fn requests with
\* iot_container_find_component, in order.
DepSeqs == {<<>>} \cup {<<n>> : n \in Names}

\* iot_config and the configuration it loads: set tells whether
\* iot_container_config was called, parsed whether the container's own
\* configuration loads and parses, dynamic whether the library is built with
\* IOT_BUILD_DYNAMIC_LOAD.
Configs ==
  [set : {TRUE}, kind : [Names -> Kinds], deps : [Names -> DepSeqs],
   parsed : BOOLEAN, dynamic : BOOLEAN]

NoConfig ==
  [set |-> FALSE, kind |-> [n \in Names |-> "absent"],
   deps |-> [n \in Names |-> <<>>], parsed |-> FALSE, dynamic |-> FALSE]

\* struct iot_container_t with its holders, and iot_load_in_progress.
NoContainer ==
  [head |-> NULL, tail |-> NULL,
   next |-> [h \in HolderIds |-> NULL], prev |-> [h \in HolderIds |-> NULL],
   name |-> [h \in HolderIds |-> NULL],
   comp |-> [h \in HolderIds |-> "none"],
   stack |-> <<>>]

\* History of the last container call: its name argument and result, the
\* config_fn invocations, find requests and init attempts it made, and the
\* holders whose start_fn, stop_fn and free_fn it called.
NoLog ==
  [op |-> "none", name |-> NULL, res |-> NULL, calls |-> <<>>, reqs |-> {},
   attempts |-> <<>>, run |-> "none", started |-> <<>>, stopped |-> <<>>,
   freed |-> <<>>]

\* iot_containers with the containers' next, prev and name, and
\* iot_container_mutex (NULL or the thread that holds it).
NoRegistry ==
  [head |-> NULL,
   next |-> [c \in ContIds |-> NULL], prev |-> [c \in ContIds |-> NULL],
   name |-> [c \in ContIds |-> NULL],
   mutex |-> NULL]

\* A thread outside iot_container_alloc and iot_container_free.
NoRegCall == [pc |-> "idle", arg |-> NULL]

\* History of the registry: the containers allocated and not yet freed, and
\* the last iot_container_alloc (its name, the container returned, whether
\* the name was registered, whether the list stayed the same).
NoRegLog ==
  [alive |-> {}, op |-> "none", name |-> NULL, res |-> NULL, was |-> FALSE,
   same |-> TRUE]

\* The state after iot_scheduler_alloc, before any call.
InitState ==
  /\ lasttime = 0
  /\ state = "INITIAL"
  /\ mutex = "free"
  /\ signalled = FALSE
  /\ schd_time = nsToTimespec(0)
  /\ queue = EmptyMap
  /\ idle = {}
  /\ sch = [s \in Sched |-> NoSchedule]
  /\ next_id = 0
  /\ dpc = "start"
  /\ current = NULL
  /\ fpc = "none"
  /\ gh = [s \in Sched |-> NoHistory]
  /\ order = <<>>
  /\ tpc = [t \in Threads |-> "idle"]
  /\ tresult = [t \in Threads |-> 0]
  /\ tprev = [t \in Threads |-> 0]
  /\ tfloor = [t \in Threads |-> 0]
  /\ tcalls = [t \in Threads |-> 0]
  /\ returned = {}
  /\ cont = NoContainer
  /\ cfg = NoConfig
  /\ clog = NoLog
  /\ reg = NoRegistry
  /\ rthr = [t \in Threads |-> NoRegCall]
  /\ rlog = NoRegLog

Init == InitState /\ ret = NotObserved

\* The same state, in runs that observe the values returned.
InitApi == InitState /\ ret = NoCall

\* ---------------------------------------------------- history helpers
\* iot_schedule_queue_add was called for s with start = nominal.
NoteQueueAdd(g, s, nominal) ==
  [g EXCEPT ![s].nominal = nominal, ![s].removed = FALSE]
\* iot_schedule_remove moved s to the idle map.
NoteRemoved(g, s) == [g EXCEPT ![s].nominal = 0, ![s].removed = TRUE]
\* iot_schedule_free called freefn for s.
NoteFreed(g, s) ==
  [g EXCEPT ![s].nominal = 0, ![s].removed = FALSE, ![s].freed = Inc2(@)]
NoteQueueLeave(g, s) == [g EXCEPT ![s].nominal = 0]

\* pthread_cond_signal / pthread_cond_broadcast on component.cond: it reaches
\* the dispatcher only if the dispatcher is blocked in the timed wait.
\* The call op on schedule s returned val.
NoteReturn(r, op, s, val) ==
  IF r = NotObserved THEN r
  ELSE [op |-> op, s |-> s, val |-> val, at |-> 0, flip |-> ~ r.flip,
        sig |-> FALSE]

\* iot_schedule_reset on schedule s read the time at.
NoteReset(r, s, at) ==
  IF r = NotObserved THEN r
  ELSE [op |-> "reset", s |-> s, val |-> FALSE, at |-> at, flip |-> ~ r.flip,
        sig |-> FALSE]

\* The call noted in r called pthread_cond_signal (sent) or did not.
NoteSignal(r, sent) ==
  IF r = NotObserved THEN r ELSE [r EXCEPT !.sig = sent]

CondSignal == IF dpc = "timed_wait" THEN TRUE ELSE signalled

\* ------------------------------------------ iot_component_t state changes
\* iot_component_set_running / _set_stopped / _set_deleted: under the mutex,
\* set the state and broadcast the condition variable.
iot_component_set_state(new) ==
  /\ mutex = "free"
  /\ state' = new
  /\ signalled' = CondSignal

\* ------------------------------------------------------------ public API
\* iot_scheduler_start
SchedulerStart ==
  /\ fpc = "none"
  /\ iot_component_set_state("RUNNING")
  /\ UNCHANGED <<lasttime, mutex, schd_time, queue, idle, sch, next_id,
                 dpc, current, fpc, gh, order, clockVars, contVars, ret>>

\* iot_scheduler_stop
SchedulerStop ==
  /\ fpc = "none"
  /\ iot_component_set_state("STOPPED")
  /\ UNCHANGED <<lasttime, mutex, schd_time, queue, idle, sch, next_id,
                 dpc, current, fpc, gh, order, clockVars, contVars, ret>>

\* iot_schedule_create up to its iot_component_lock: the schedule is
\* allocated and filled in, start = iot_time_nsecs () + start.
ScheduleCreateAlloc(n, cap, period, start, repeat, pool) ==
  \E w \in Walls :
  LET s == next_id
      now == TimeNsecs(w, lasttime)
  IN  /\ fpc = "none"
      /\ next_id < n
      /\ now <= cap
      /\ lasttime' = now
      /\ next_id' = next_id + 1
      /\ sch' = [sch EXCEPT ![s] =
                   [status |-> "alloc", start |-> now + start, period |-> period,
                    repeat |-> repeat, scheduled |-> FALSE, pool |-> pool,
                    dropped |-> 0]]
      /\ gh' = [gh EXCEPT ![s] = [NoHistory EXCEPT !.initRepeat = repeat]]
      /\ UNCHANGED <<state, mutex, signalled, schd_time, queue, idle,
                     dpc, current, fpc, order, clockVars, contVars, ret>>

\* iot_schedule_create from its lock on: the schedule enters the idle map.
ScheduleCreateIdle(s) ==
  LET r == iot_schedule_idle_add(idle, sch, s)
  IN  /\ fpc = "none"
      /\ sch[s].status = "alloc"
      /\ mutex = "free"
      /\ idle' = r.idle
      /\ sch' = [r.sch EXCEPT ![s].status = "live"]
      /\ UNCHANGED <<lasttime, state, mutex, signalled, schd_time, queue,
                     next_id, dpc, current, fpc, gh, order, clockVars, contVars, ret>>

\* iot_schedule_add that signals whenever the schedule is placed at the
\* front, whatever the scheduler state.
ScheduleAdd_SignalsAnyState(s) ==
  LET val == ~ sch[s].scheduled
      r == iot_schedule_queue_add(queue, sch, s)
      sent == val /\ r.front
  IN  /\ fpc = "none"
      /\ sch[s].status = "live"
      /\ mutex = "free"
      /\ IF val
           THEN /\ idle' = iot_schedule_idle_remove(idle, s)
                /\ queue' = r.queue
                /\ sch' = r.sch
                /\ signalled' = IF sent THEN CondSignal ELSE signalled
                /\ gh' = NoteQueueAdd(gh, s, sch[s].start)
                /\ order' = Append(SeqRemove(order, s), s)
           ELSE UNCHANGED <<idle, queue, sch, signalled, gh, order>>
      /\ ret' = NoteSignal(NoteReturn(ret, "add", s, val), sent)
      /\ UNCHANGED <<lasttime, state, mutex, schd_time, next_id, dpc,
                     current, fpc, clockVars, contVars>>

\* iot_schedule_add; val is the value returned.
ScheduleAdd(s) ==
  LET val == ~ sch[s].scheduled
      r == iot_schedule_queue_add(queue, sch, s)
      sent == val /\ r.front /\ state = "RUNNING"
  IN  /\ fpc = "none"
      /\ sch[s].status = "live"
      /\ mutex = "free"
      /\ IF val
           THEN /\ idle' = iot_schedule_idle_remove(idle, s)
                /\ queue' = r.queue
                /\ sch' = r.sch
                /\ signalled' = IF sent THEN CondSignal ELSE signalled
                /\ gh' = NoteQueueAdd(gh, s, sch[s].start)
                /\ order' = Append(SeqRemove(order, s), s)
           ELSE UNCHANGED <<idle, queue, sch, signalled, gh, order>>
      /\ ret' = NoteSignal(NoteReturn(ret, "add", s, val), sent)
      /\ UNCHANGED <<lasttime, state, mutex, schd_time, next_id, dpc,
                     current, fpc, clockVars, contVars>>

\* iot_schedule_remove that reads the scheduled flag for its return value
\* after the move has cleared it.
ScheduleRemove_ReadsFlagAfter(s) ==
  LET r == iot_schedule_idle_add(idle, sch, s)
  IN  /\ fpc = "none"
      /\ sch[s].status = "live"
      /\ mutex = "free"
      /\ IF sch[s].scheduled
           THEN /\ queue' = iot_schedule_queue_remove(queue, sch, s)
                /\ idle' = r.idle
                /\ sch' = r.sch
                /\ order' = SeqRemove(order, s)
                /\ gh' = NoteRemoved(gh, s)
           ELSE UNCHANGED <<queue, idle, sch, gh, order>>
      /\ ret' = NoteReturn(ret, "remove", s, sch'[s].scheduled)
      /\ UNCHANGED <<lasttime, state, mutex, signalled, schd_time,
                     next_id, dpc, current, fpc, clockVars, contVars>>

\* iot_schedule_remove
ScheduleRemove(s) ==
  LET val == sch[s].scheduled
      r == iot_schedule_idle_add(idle, sch, s)
  IN  /\ fpc = "none"
      /\ sch[s].status = "live"
      /\ mutex = "free"
      /\ IF val
           THEN /\ queue' = iot_schedule_queue_remove(queue, sch, s)
                /\ idle' = r.idle
                /\ sch' = r.sch
                /\ order' = SeqRemove(order, s)
                /\ gh' = NoteRemoved(gh, s)
           ELSE UNCHANGED <<queue, idle, sch, gh, order>>
      /\ ret' = NoteReturn(ret, "remove", s, val)
      /\ UNCHANGED <<lasttime, state, mutex, signalled, schd_time,
                     next_id, dpc, current, fpc, clockVars, contVars>>

\* iot_schedule_reset with next = iot_time_nsecs (), the period left out.
ScheduleReset_NoPeriod(cap, s) ==
  \E w \in Walls :
  LET now == TimeNsecs(w, lasttime)
      next == now
      r == iot_schedule_queue_update(queue, sch, s, next)
      sent == sch[s].scheduled /\ r.front /\ state = "RUNNING"
  IN  /\ fpc = "none"
      /\ sch[s].status = "live"
      /\ mutex = "free"
      /\ now <= cap
      /\ lasttime' = now
      /\ ret' = NoteSignal(NoteReset(ret, s, now), sent)
      /\ IF sch[s].scheduled
           THEN /\ queue' = r.queue
                /\ sch' = r.sch
                /\ signalled' = IF sent THEN CondSignal ELSE signalled
                /\ gh' = NoteQueueAdd(gh, s, next)
                /\ order' = Append(SeqRemove(order, s), s)
           ELSE /\ sch' = iot_schedule_update_start(sch, s, next)
                /\ UNCHANGED <<queue, signalled, gh, order>>
      /\ UNCHANGED <<state, mutex, schd_time, idle, next_id, dpc,
                     current, fpc, clockVars, contVars>>

\* iot_schedule_reset
ScheduleReset(cap, s) ==
  \E w \in Walls :
  LET now == TimeNsecs(w, lasttime)
      next == sch[s].period + now
      r == iot_schedule_queue_update(queue, sch, s, next)
      sent == sch[s].scheduled /\ r.front /\ state = "RUNNING"
  IN  /\ fpc = "none"
      /\ sch[s].status = "live"
      /\ mutex = "free"
      /\ now <= cap
      /\ lasttime' = now
      /\ ret' = NoteSignal(NoteReset(ret, s, now), sent)
      /\ IF sch[s].scheduled
           THEN /\ queue' = r.queue
                /\ sch' = r.sch
                /\ signalled' = IF sent THEN CondSignal ELSE signalled
                /\ gh' = NoteQueueAdd(gh, s, next)
                /\ order' = Append(SeqRemove(order, s), s)
           ELSE /\ sch' = iot_schedule_update_start(sch, s, next)
                /\ UNCHANGED <<queue, signalled, gh, order>>
      /\ UNCHANGED <<state, mutex, schd_time, idle, next_id, dpc,
                     current, fpc, clockVars, contVars>>

\* iot_schedule_delete up to its iot_component_unlock: the schedule leaves
\* the map that its scheduled flag names.
ScheduleDeleteUnlink(s) ==
  /\ fpc = "none"
  /\ sch[s].status = "live"
  /\ mutex = "free"
  /\ IF sch[s].scheduled
       THEN /\ queue' = iot_schedule_queue_remove(queue, sch, s)
            /\ idle' = idle
       ELSE /\ idle' = iot_schedule_idle_remove(idle, s)
            /\ queue' = queue
  /\ sch' = [sch EXCEPT ![s] = [NoSchedule EXCEPT !.status = "unlinked"]]
  /\ order' = SeqRemove(order, s)
  /\ gh' = [NoteQueueLeave(gh, s) EXCEPT ![s].removed = FALSE]
  /\ UNCHANGED <<lasttime, state, mutex, signalled, schd_time, next_id,
                 dpc, current, fpc, clockVars, contVars, ret>>

\* iot_schedule_free: freefn (arg), then the schedule's memory is released;
\* by records which caller freed it.
iot_schedule_free(S, s, by) == [S EXCEPT ![s] = [NoSchedule EXCEPT !.status = by]]

\* iot_schedule_delete after its unlock: iot_schedule_free (schedule).
ScheduleDeleteFree(s) ==
  /\ sch[s].status = "unlinked"
  /\ sch' = iot_schedule_free(sch, s, "deleted")
  /\ gh' = NoteFreed(gh, s)
  /\ UNCHANGED <<lasttime, state, mutex, signalled, schd_time, queue,
                 idle, next_id, dpc, current, fpc, order, clockVars, contVars, ret>>

\* ------------------------------------------------- iot_scheduler_thread
\* Lines 112-116: next = iot_time_nsecs (); nsToTimespec (next, &schd_time).
DispInit(cap) ==
  \E w \in Walls :
  LET now == TimeNsecs(w, lasttime)
  IN  /\ dpc = "start"
      /\ now <= cap
      /\ lasttime' = now
      /\ schd_time' = nsToTimespec(now)
      /\ dpc' = "state_wait"
      /\ UNCHANGED <<state, mutex, signalled, queue, idle, sch, next_id,
                     current, fpc, gh, order, clockVars, contVars, ret>>

\* iot_component_wait_and_lock returns once the state is one of those waited for.
iot_component_wait_and_lock(st) == st \in {"DELETED", "RUNNING"}

\* Lines 119-121 without the test for DELETED at line 120: the thread goes
\* on into pthread_cond_timedwait.
DispStateWait_NoDeletedExit ==
  /\ dpc = "state_wait"
  /\ mutex = "free"
  /\ iot_component_wait_and_lock(state)
  /\ mutex' = "free"
  /\ dpc' = "timed_wait"
  /\ signalled' = FALSE
  /\ UNCHANGED <<lasttime, state, schd_time, queue, idle, sch, next_id,
                 current, fpc, gh, order, clockVars, contVars, ret>>

\* Lines 119-121: the state wait returns with the mutex held. On DELETED the
\* thread leaves the loop; otherwise it enters pthread_cond_timedwait, which
\* releases the mutex.
DispStateWait ==
  /\ dpc = "state_wait"
  /\ mutex = "free"
  /\ iot_component_wait_and_lock(state)
  /\ IF state = "DELETED"
       THEN /\ mutex' = "dispatcher"
            /\ dpc' = "exited"
            /\ UNCHANGED signalled
       ELSE /\ mutex' = "free"
            /\ dpc' = "timed_wait"
            /\ signalled' = FALSE
  /\ UNCHANGED <<lasttime, state, schd_time, queue, idle, sch, next_id,
                 current, fpc, gh, order, clockVars, contVars, ret>>

\* Lines 180-181 for the front schedule cur (or none) at time now.
NextWake(S, cur, now) ==
  nsToTimespec(IF cur # NULL THEN S[cur].start ELSE now + DefaultWake)

\* Lines 121-133 without the test of the state at lines 122-129.
TimedWaitReturn_NoStateCheck(cap) ==
  \E w \in Walls :
  LET cur == iot_schedule_queue_next(queue)
      now == TimeNsecs(w, lasttime)
  IN  /\ dpc = "timed_wait"
      /\ mutex = "free"
      /\ signalled' = FALSE
      /\ now <= cap
      /\ lasttime' = now
      /\ IF cur # NULL /\ sch[cur].start < now
           THEN /\ dpc' = "fire"
                /\ mutex' = "dispatcher"
                /\ current' = cur
                /\ UNCHANGED schd_time
           ELSE /\ schd_time' = NextWake(sch, cur, now)
                /\ dpc' = "state_wait"
                /\ UNCHANGED <<mutex, current>>
      /\ UNCHANGED <<state, queue, idle, sch, next_id, fpc, gh, order,
                     clockVars, contVars, ret>>

\* Lines 121-133 (and 180-182 when nothing is ready): pthread_cond_timedwait
\* returns with the mutex held, the state is read, the front of the queue selected.
TimedWaitReturn(cap) ==
  \E w \in Walls :
  LET cur == iot_schedule_queue_next(queue)
      now == TimeNsecs(w, lasttime)
  IN  /\ dpc = "timed_wait"
      /\ mutex = "free"
      /\ signalled' = FALSE
      /\ IF state # "RUNNING"
           THEN /\ dpc' = IF state = "DELETED" THEN "exited" ELSE "state_wait"
                /\ UNCHANGED <<lasttime, mutex, schd_time, current>>
           ELSE /\ now <= cap
                /\ lasttime' = now
                /\ IF cur # NULL /\ sch[cur].start < now
                     THEN /\ dpc' = "fire"
                          /\ mutex' = "dispatcher"
                          /\ current' = cur
                          /\ UNCHANGED schd_time
                     ELSE /\ schd_time' = NextWake(sch, cur, now)
                          /\ dpc' = "state_wait"
                          /\ UNCHANGED <<mutex, current>>
      /\ UNCHANGED <<state, queue, idle, sch, next_id, fpc, gh, order,
                     clockVars, contVars, ret>>

\* The timed wait ends on a signal or broadcast, or when CLOCK_REALTIME
\* reaches schd_time.
DispWake(cap) ==
  /\ signalled \/ \E w \in Walls : TimespecLE(schd_time, nsToTimespec(w))
  /\ TimedWaitReturn(cap)

\* The timed wait ends spuriously.
DispSpuriousWake(cap) ==
  /\ ~ (signalled \/ \E w \in Walls : TimespecLE(schd_time, nsToTimespec(w)))
  /\ TimedWaitReturn(cap)

\* Lines 136-155 without the atomic_fetch_add on dropped.
DispFire_NoCount ==
  /\ dpc = "fire"
  /\ \E admitted \in BOOLEAN :
       /\ sch[current].pool \/ admitted
       /\ gh' = [gh EXCEPT ![current].attempts = @ + 1,
                           ![current].refused =
                             IF sch[current].pool /\ ~ admitted THEN @ + 1 ELSE @]
  /\ dpc' = "requeue"
  /\ UNCHANGED <<lasttime, state, mutex, signalled, schd_time, queue, sch,
                 idle, next_id, current, fpc, order, clockVars, contVars, ret>>

\* Lines 136-155: run_cb, then the work goes to the pool (which admits it or
\* refuses it) or to a new thread.
DispFire ==
  /\ dpc = "fire"
  /\ \E admitted \in BOOLEAN :
       /\ sch[current].pool \/ admitted
       /\ sch' = [sch EXCEPT ![current].dropped =
                    IF sch[current].pool /\ ~ admitted THEN @ + 1 ELSE @]
       /\ gh' = [gh EXCEPT ![current].attempts = @ + 1,
                           ![current].refused =
                             IF sch[current].pool /\ ~ admitted THEN @ + 1 ELSE @]
  /\ dpc' = "requeue"
  /\ UNCHANGED <<lasttime, state, mutex, signalled, schd_time, queue,
                 idle, next_id, current, fpc, order, clockVars, contVars, ret>>

\* Lines 158-177 with the repeat count tested before it is decremented:
\* the last repetition is not recognised.
RequeuePostDecrement(q, I, S, s, next) ==
  LET S1 == [S EXCEPT ![s].repeat = IF @ > 0 THEN @ - 1 ELSE @]
      r == iot_schedule_queue_update(q, S1, s, next)
  IN  [queue |-> r.queue, idle |-> I, sch |-> r.sch, requeued |-> TRUE]

\* Lines 158-177: the schedule is re-queued at period + now, or moved to the
\* idle map on its last repetition.
Requeue(q, I, S, s, next) ==
  IF S[s].repeat > 0 /\ S[s].repeat - 1 = 0
    THEN LET S1 == [S EXCEPT ![s].repeat = 0]
             r == iot_schedule_idle_add(I, S1, s)
         IN  [queue |-> iot_schedule_queue_remove(q, S1, s), idle |-> r.idle,
              sch |-> r.sch, requeued |-> FALSE]
    ELSE LET S1 == [S EXCEPT ![s].repeat = IF @ > 0 THEN @ - 1 ELSE @]
             r == iot_schedule_queue_update(q, S1, s, next)
         IN  [queue |-> r.queue, idle |-> I, sch |-> r.sch, requeued |-> TRUE]

\* Lines 158-182: re-queue, select the new front, set schd_time, unlock.
DispRequeue(cap) ==
  \E w \in Walls, w2 \in Walls :
  LET now == TimeNsecs(w, lasttime)
      next == sch[current].period + now
      r == Requeue(queue, idle, sch, current, next)
      cur == iot_schedule_queue_next(r.queue)
      now2 == IF cur = NULL THEN TimeNsecs(w2, now) ELSE now
  IN  /\ dpc = "requeue"
      /\ now2 <= cap
      /\ lasttime' = now2
      /\ queue' = r.queue
      /\ idle' = r.idle
      /\ sch' = r.sch
      /\ gh' = IF r.requeued THEN NoteQueueAdd(gh, current, next)
               ELSE NoteQueueLeave(gh, current)
      /\ order' = IF r.requeued THEN Append(SeqRemove(order, current), current)
                  ELSE SeqRemove(order, current)
      /\ schd_time' = NextWake(r.sch, cur, now2)
      /\ mutex' = "free"
      /\ dpc' = "state_wait"
      /\ current' = NULL
      /\ UNCHANGED <<state, signalled, next_id, fpc, clockVars, contVars, ret>>

\* --------------------------------------------------- iot_scheduler_free
\* iot_component_set_stopped, on the last reference; no API call is in progress.
FreeStop ==
  /\ fpc = "none"
  /\ \A s \in Sched : sch[s].status # "alloc"
  /\ iot_component_set_state("STOPPED")
  /\ fpc' = "stopped"
  /\ UNCHANGED <<lasttime, mutex, schd_time, queue, idle, sch, next_id,
                 dpc, current, gh, order, clockVars, contVars, ret>>

\* iot_component_set_deleted, after the first pause.
FreeDelete ==
  /\ fpc = "stopped"
  /\ iot_component_set_state("DELETED")
  /\ fpc' = "deleted"
  /\ UNCHANGED <<lasttime, mutex, schd_time, queue, idle, sch, next_id,
                 dpc, current, gh, order, clockVars, contVars, ret>>

\* iot_scheduler_free_schedules: every schedule that is a value of the map
\* is freed; the map is freed.
RECURSIVE FreeAll(_, _, _)
FreeAll(S, set, by) ==
  IF set = {} THEN S
  ELSE LET s == CHOOSE x \in set : TRUE
       IN  FreeAll(iot_schedule_free(S, s, by), set \ {s}, by)

RECURSIVE NoteAllFreed(_, _)
NoteAllFreed(g, set) ==
  IF set = {} THEN g
  ELSE LET s == CHOOSE x \in set : TRUE
       IN  NoteAllFreed(NoteFreed(g, s), set \ {s})

\* iot_scheduler_free_schedules (scheduler->queue), after the second pause.
FreeDrainQueue ==
  /\ fpc = "deleted"
  /\ sch' = FreeAll(sch, Range(queue), "drained_queue")
  /\ gh' = NoteAllFreed(gh, Range(queue))
  /\ queue' = EmptyMap
  /\ order' = <<>>
  /\ fpc' = "drained_queue"
  /\ UNCHANGED <<lasttime, state, mutex, signalled, schd_time, idle,
                 next_id, dpc, current, clockVars, contVars, ret>>

\* iot_scheduler_free without its second iot_scheduler_free_schedules call.
FreeDrainIdle_Skips ==
  /\ fpc = "drained_queue"
  /\ fpc' = "done"
  /\ UNCHANGED <<lasttime, state, mutex, signalled, schd_time, queue, idle,
                 sch, next_id, dpc, current, gh, order, clockVars, contVars, ret>>

\* iot_scheduler_free_schedules (scheduler->idle).
FreeDrainIdle ==
  /\ fpc = "drained_queue"
  /\ sch' = FreeAll(sch, idle, "drained_idle")
  /\ gh' = NoteAllFreed(gh, idle)
  /\ idle' = {}
  /\ fpc' = "done"
  /\ UNCHANGED <<lasttime, state, mutex, signalled, schd_time, queue,
                 next_id, dpc, current, order, clockVars, contVars, ret>>

\* ------------------------------------------------------- the registry
Live(s) == sch[s].status = "live"
InQueue(s) == s \in Range(queue)
QueueKeys(s) == {k \in DOMAIN queue : queue[k] = s}

\* C1: whenever the scheduler mutex is free, every live schedule (created and
\* not yet deleted) is an entry of exactly one of the due-time map and the
\* idle map.
C1_ExactlyOneMap ==
  mutex = "free" =>
    \A s \in Sched : Live(s) =>
      Cardinality(QueueKeys(s)) + (IF s \in idle THEN 1 ELSE 0) = 1

\* With the mutex free, one schedule is back in the idle map after the
\* dispatcher ran its last repetition, while another one is in the due-time map.
C1_Witness ==
  /\ mutex = "free"
  /\ \E s \in Sched, s2 \in Sched :
       /\ Live(s) /\ s \in idle /\ gh[s].attempts > 0
       /\ Live(s2) /\ InQueue(s2)

\* C2: whenever the scheduler mutex is free, a live schedule has scheduled =
\* true if and only if it is the entry of the due-time map under its start.
C2_ScheduledIffQueued ==
  mutex = "free" =>
    \A s \in Sched : Live(s) =>
      (sch[s].scheduled <=>
         (sch[s].start \in DOMAIN queue /\ queue[sch[s].start] = s))

\* With the mutex free, the dispatcher has moved a schedule to the idle map
\* on its last repetition (scheduled is false again), and a schedule whose
\* start was bumped is in the due-time map.
C2_Witness ==
  /\ mutex = "free"
  /\ \E s \in Sched :
       Live(s) /\ ~ sch[s].scheduled /\ gh[s].attempts > 0 /\ sch[s].repeat = 0
          /\ gh[s].initRepeat > 0
  /\ \E s \in Sched :
       Live(s) /\ sch[s].scheduled /\ sch[s].start > gh[s].nominal

\* ----------------------------------------------------- the timed wait
FrontStart == Min(DOMAIN queue)

\* C4: whenever the scheduler is RUNNING and the dispatcher is blocked in its
\* timed wait with no signal pending, the wait deadline schd_time is not
\* later than the start of the front of the due-time map. The case stated is
\* the one in which the wait really lasts: the deadline is later than every
\* time the clock has returned so far.
C4_WaitNotLaterThanFront ==
  (/\ state = "RUNNING" /\ dpc = "timed_wait" /\ ~ signalled
   /\ DOMAIN queue # {}
   /\ ~ TimespecLE(schd_time, nsToTimespec(lasttime)))
    => TimespecLE(schd_time, nsToTimespec(FrontStart))

\* Schedules whose scheduled flag is set.
Scheduled == {s \in Sched : Live(s) /\ sch[s].scheduled}

\* C20: the schedules of the due-time map have pairwise distinct start
\* values and no add overwrites an entry: every schedule with scheduled =
\* true has its own entry, under its own start, so the number of entries
\* equals the number of scheduled schedules.
C20_DistinctStarts ==
  /\ Cardinality(DOMAIN queue) = Cardinality(Scheduled)
  /\ \A s \in Scheduled : QueueKeys(s) = {sch[s].start}
  /\ \A a \in Scheduled : \A b \in Scheduled :
       a # b => sch[a].start # sch[b].start

\* Two schedules submitted with the same start are both queued, one of them
\* under a bumped key.
C20_Witness ==
  \E a \in Scheduled : \E b \in Scheduled :
    /\ a # b
    /\ gh[a].nominal = gh[b].nominal
    /\ sch[a].start = gh[a].nominal
    /\ sch[b].start = gh[b].nominal + 1

\* ----------------------------------------------------- scheduler state
\* The dispatcher has selected a schedule and is firing or re-queueing it.
Dispatching == dpc \in {"fire", "requeue"}

\* C12: the dispatcher fires a schedule only while the scheduler state is
\* RUNNING: in no state is a schedule being fired or re-queued while the
\* state is INITIAL, STOPPED or DELETED.
C12_FiresOnlyWhenRunning ==
  Dispatching => state = "RUNNING"

\* The scheduler was stopped while the dispatcher is in its timed wait and
\* the front schedule, already dispatched once, is due again.
C12_Witness ==
  /\ dpc = "timed_wait"
  /\ state = "STOPPED"
  /\ \E s \in Sched :
       /\ iot_schedule_queue_next(queue) = s
       /\ gh[s].attempts > 0
       /\ sch[s].start < lasttime

\* ------------------------------------------------ removal and deletion
\* C8: the dispatcher only fires a schedule of the due-time map: a schedule
\* that iot_schedule_remove moved to the idle map is not dispatched until it
\* is added again, and no schedule of the idle map is ever fired.
C8_RemovedNeverDispatched ==
  Dispatching =>
    /\ Live(current)
    /\ InQueue(current)
    /\ sch[current].scheduled
    /\ current \notin idle
    /\ ~ gh[current].removed

\* The dispatcher fires a schedule while a removed one, whose start is
\* earlier and has elapsed, sits in the idle map.
C8_Witness ==
  /\ dpc = "fire"
  /\ \E s \in Sched :
       /\ s # current /\ Live(s) /\ gh[s].removed /\ s \in idle
       /\ sch[s].start < sch[current].start
       /\ sch[s].start < lasttime

Freed == {"deleted", "drained_queue", "drained_idle"}

\* C9: once iot_schedule_delete has returned for a schedule, the schedule is
\* in neither map, the dispatcher does not hold it, and its free function
\* has run exactly once, also after iot_scheduler_free has completed.
C9_DeletedStaysGone ==
  \A s \in Sched :
    sch[s].status = "deleted" =>
      /\ s \notin idle
      /\ ~ InQueue(s)
      /\ current # s
      /\ gh[s].freed = 1

\* iot_scheduler_free has completed after a schedule that had been
\* dispatched was deleted, and it freed another schedule itself.
C9_Witness ==
  /\ fpc = "done"
  /\ \E s \in Sched : sch[s].status = "deleted" /\ gh[s].attempts > 0
  /\ \E s \in Sched : sch[s].status \in {"drained_queue", "drained_idle"}

\* C10: iot_scheduler_free frees every schedule that is live when it runs,
\* from whichever map holds it, and no schedule is ever freed twice.
C10_FreeFnOnce ==
  /\ \A s \in Sched : gh[s].freed <= 1
  /\ \A s \in Sched : (gh[s].freed = 1) <=> (sch[s].status \in Freed)
  /\ fpc = "drained_queue" => \A s \in Sched : Live(s) => s \in idle
  /\ fpc = "done" =>
       /\ \A s \in Sched : ~ Live(s)
       /\ idle = {}
       /\ queue = EmptyMap

C10_Witness ==
  /\ fpc = "done"
  /\ \E s \in Sched : sch[s].status = "drained_queue"
  /\ \E s \in Sched : sch[s].status = "drained_idle"

\* --------------------------------------------------- dispatch order
\* Runs in which schedules with one repetition are created, added once and
\* dispatched, and are not removed, reset or deleted.
OrderCap == MaxTime + 2
OrderOffsets == 0 .. (MaxOffset + 1)

\* iot_schedule_add, called for a schedule that has not been dispatched yet.
ScheduleAddOnce(s) == gh[s].attempts = 0 /\ ScheduleAdd(s)

NextOrder ==
  \/ SchedulerStart
  \/ \E start \in OrderOffsets :
       ScheduleCreateAlloc(NSched + 1, OrderCap, 1, start, 1, FALSE)
  \/ \E s \in Sched : ScheduleCreateIdle(s)
  \/ \E s \in Sched : ScheduleAddOnce(s)
  \/ DispInit(OrderCap)
  \/ DispStateWait
  \/ DispWake(OrderCap)
  \/ DispSpuriousWake(OrderCap)
  \/ DispFire
  \/ DispRequeue(OrderCap)

SpecOrder == Init /\ [][NextOrder]_vars

\* a entered the due-time map before b did.
AddedBefore(a, b) == Pos(order, a) < Pos(order, b)

\* C6: of two schedules submitted with the same start value, the one added
\* to the due-time map first is dispatched first: the dispatcher never fires
\* a schedule while one added earlier with the same submitted start waits.
C6_FifoOnEqualStart ==
  dpc = "fire" =>
    \A a \in Sched :
      (InQueue(a) /\ a # current /\ gh[a].nominal = gh[current].nominal)
        => AddedBefore(current, a)

\* C7: of two schedules of the due-time map with different submitted start
\* values, the one with the smaller submitted start is dispatched first: the
\* dispatcher never fires a schedule while one with a smaller submitted
\* start waits.
C7_AscendingSubmittedStart ==
  dpc = "fire" =>
    \A a \in Sched : InQueue(a) => gh[a].nominal >= gh[current].nominal

\* ------------------------------------------------------ repeat count
\* Runs in which schedules with a finite repeat count, with or without a
\* thread pool, are created, added once and dispatched.
RepeatCap == MaxTime + 2
RepeatCounts == 1 .. MaxRepeat

NextRepeat ==
  \/ SchedulerStart
  \/ SchedulerStop
  \/ \E start \in 0 .. MaxOffset, repeat \in RepeatCounts, pool \in BOOLEAN :
       ScheduleCreateAlloc(NSched, RepeatCap, 1, start, repeat, pool)
  \/ \E s \in Sched : ScheduleCreateIdle(s)
  \/ \E s \in Sched : ScheduleAddOnce(s)
  \/ DispInit(RepeatCap)
  \/ DispStateWait
  \/ DispWake(RepeatCap)
  \/ DispSpuriousWake(RepeatCap)
  \/ DispFire
  \/ DispRequeue(RepeatCap)

SpecRepeat == Init /\ [][NextRepeat]_vars

\* The dispatcher has fired s and has not yet re-queued it.
InRequeue(s) == dpc = "requeue" /\ current = s

\* C5: a schedule created with repeat R > 0, added once and then left alone
\* is dispatched exactly R times: every dispatch consumes one repetition, the
\* schedule stays in the due-time map while repetitions remain, and the
\* dispatcher moves it to the idle map right after the R-th dispatch.
C5_RepeatCount ==
  \A s \in Sched :
    (Live(s) /\ gh[s].initRepeat > 0) =>
      /\ gh[s].attempts <= gh[s].initRepeat
      /\ InRequeue(s) \/ gh[s].attempts + sch[s].repeat = gh[s].initRepeat
      /\ (s \in idle /\ gh[s].attempts > 0) => gh[s].attempts = gh[s].initRepeat
      /\ (gh[s].attempts = gh[s].initRepeat /\ ~ InRequeue(s)) => s \in idle
      /\ (gh[s].attempts > 0 /\ gh[s].attempts < gh[s].initRepeat) => InQueue(s)

C5_Witness ==
  \E s \in Sched :
    /\ Live(s) /\ gh[s].initRepeat = MaxRepeat
    /\ gh[s].attempts = MaxRepeat
    /\ sch[s].dropped = 1
    /\ s \in idle /\ ~ InQueue(s) /\ sch[s].repeat = 0

\* -------------------------------------------------- pool refusals
\* Runs in which every schedule has a thread pool, which may refuse work.
NextPool ==
  \/ SchedulerStart
  \/ SchedulerStop
  \/ \E period \in 1 .. MaxPeriod, start \in 0 .. MaxOffset, repeat \in 0 .. MaxRepeat :
       ScheduleCreateAlloc(NSched, MaxTime, period, start, repeat, TRUE)
  \/ \E s \in Sched : ScheduleCreateIdle(s)
  \/ \E s \in Sched : ScheduleAdd(s)
  \/ \E s \in Sched : ScheduleRemove(s)
  \/ \E s \in Sched : ScheduleReset(MaxTime, s)
  \/ \E s \in Sched : ScheduleDeleteUnlink(s)
  \/ \E s \in Sched : ScheduleDeleteFree(s)
  \/ DispInit(MaxTime)
  \/ DispStateWait
  \/ DispWake(MaxTime)
  \/ DispSpuriousWake(MaxTime)
  \/ DispFire
  \/ DispRequeue(MaxTime)

SpecPool == Init /\ [][NextPool]_vars

\* dropped counts the refused admissions of every live schedule.
DroppedIsRefused ==
  \A s \in Sched : Live(s) => sch[s].dropped = gh[s].refused

\* One step, seen from schedule s: dropped changes only when the dispatcher
\* has a pool submission for s refused, and then by one, in a single
\* dispatch attempt that goes on to the re-queue; the re-queue consumes one
\* repetition and puts s back no earlier than now + period.
RefusalStep(s) ==
  /\ sch'[s].dropped # sch[s].dropped =>
        /\ dpc = "fire" /\ current = s /\ sch[s].pool
        /\ sch'[s].dropped = sch[s].dropped + 1
        /\ gh'[s].refused = gh[s].refused + 1
  /\ gh'[s].refused # gh[s].refused =>
        /\ sch'[s].dropped = sch[s].dropped + 1
        /\ gh'[s].attempts = gh[s].attempts + 1
        /\ dpc' = "requeue" /\ current' = s
  /\ (dpc = "requeue" /\ current = s /\ dpc' # "requeue") =>
        IF sch[s].repeat = 1
          THEN s \in idle' /\ sch'[s].repeat = 0
          ELSE /\ InQueue(s)'
               /\ sch'[s].repeat = IF sch[s].repeat > 0 THEN sch[s].repeat - 1 ELSE 0
               /\ sch'[s].start > lasttime + sch[s].period

NextApi ==
  \/ SchedulerStart
  \/ SchedulerStop
  \/ \E start \in 0 .. MaxOffset, repeat \in 0 .. 1 :
       ScheduleCreateAlloc(NSched, MaxTime, 1, start, repeat, FALSE)
  \/ \E s \in Sched : ScheduleCreateIdle(s)
  \/ \E s \in Sched : ScheduleAdd(s)
  \/ \E s \in Sched : ScheduleRemove(s)
  \/ DispInit(MaxTime)
  \/ DispStateWait
  \/ DispWake(MaxTime)
  \/ DispSpuriousWake(MaxTime)
  \/ DispFire
  \/ DispRequeue(MaxTime)

SpecApi == InitApi /\ [][NextApi]_vars

\* The step is a call of iot_schedule_add or iot_schedule_remove that returns.
Returns(op, s, val) ==
  ret' # ret /\ ret'.op = op /\ ret'.s = s /\ ret'.val = val

\* The step moves s from the idle map to the due-time map.
MovesToQueue(s) ==
  /\ s \in idle /\ ~ InQueue(s) /\ ~ sch[s].scheduled
  /\ s \notin idle' /\ InQueue(s)' /\ sch'[s].scheduled

\* The step moves s from the due-time map to the idle map.
MovesToIdle(s) ==
  /\ s \notin idle /\ InQueue(s) /\ sch[s].scheduled
  /\ s \in idle' /\ ~ InQueue(s)' /\ ~ sch'[s].scheduled

\* C17: iot_schedule_add returns true exactly when it moved the schedule
\* from the idle map to the due-time map, iot_schedule_remove returns true
\* exactly when it moved it from the due-time map to the idle map, and a
\* call that returns false changes neither map, no schedule and sends no
\* signal.
C17_ReturnValues ==
  [][\A s \in Sched :
       /\ Returns("add", s, TRUE) => MovesToQueue(s)
       /\ Returns("add", s, FALSE) =>
            (sch[s].scheduled /\ UNCHANGED <<queue, idle, sch, signalled>>)
       /\ Returns("remove", s, TRUE) => MovesToIdle(s)
       /\ Returns("remove", s, FALSE) =>
            (~ sch[s].scheduled /\ UNCHANGED <<queue, idle, sch, signalled>>)
    ]_vars

\* iot_schedule_remove has returned false for a schedule that the dispatcher
\* moved to the idle map, while the dispatcher waits and another schedule
\* is queued.
C17_Witness ==
  /\ ret.op = "remove" /\ ~ ret.val
  /\ ret.s \in idle /\ gh[ret.s].attempts > 0
  /\ dpc = "timed_wait"
  /\ \E s \in Sched : InQueue(s)

\* ------------------------------------------------------------ reset
\* Runs that observe the time read by iot_schedule_reset.
NextReset ==
  \/ SchedulerStart
  \/ SchedulerStop
  \/ \E period \in 1 .. MaxPeriod, start \in 0 .. MaxOffset, repeat \in 0 .. 1 :
       ScheduleCreateAlloc(NSched, MaxTime, period, start, repeat, FALSE)
  \/ \E s \in Sched : ScheduleCreateIdle(s)
  \/ \E s \in Sched : ScheduleAdd(s)
  \/ \E s \in Sched : ScheduleReset(MaxTime, s)
  \/ DispInit(MaxTime)
  \/ DispStateWait
  \/ DispWake(MaxTime)
  \/ DispSpuriousWake(MaxTime)
  \/ DispFire
  \/ DispRequeue(MaxTime)

SpecReset == InitApi /\ [][NextReset]_vars

\* The step is a call of iot_schedule_reset on s.
Resets(s) == ret' # ret /\ ret'.op = "reset" /\ ret'.s = s

\* C18: a reset called at time t leaves the schedule with start >= t +
\* period, in the map it was in, with repeat, period and dropped unchanged;
\* and the schedule is not dispatched before t + period.
C18_ResetPostpones ==
  /\ [][\A s \in Sched : Resets(s) =>
           /\ ret'.at > lasttime
           /\ sch'[s].start >= ret'.at + sch[s].period
           /\ sch'[s].start > lasttime + sch[s].period
           /\ InQueue(s)' = InQueue(s)
           /\ (s \in idle') = (s \in idle)
           /\ sch'[s].scheduled = sch[s].scheduled
           /\ sch'[s].repeat = sch[s].repeat
           /\ sch'[s].period = sch[s].period
           /\ sch'[s].dropped = sch[s].dropped
      ]_vars
  /\ [](\A s \in Sched :
          (dpc = "fire" /\ current = s /\ ret.op = "reset" /\ ret.s = s)
            => lasttime > ret.at + sch[s].period)

\* The dispatcher fires a schedule whose last observed call was a reset while
\* it was queued.
C18_Witness ==
  /\ dpc = "fire"
  /\ ret.op = "reset" /\ ret.s = current
  /\ gh[current].attempts = 0

\* ------------------------------------- iot_time_nsecs, step by step
\* uint64_t result = iot_time_nanosecs ()
ClockRead(t) ==
  /\ tpc[t] = "idle"
  /\ tcalls[t] < MaxCalls
  /\ \E w \in Walls : tresult' = [tresult EXCEPT ![t] = iot_time_nanosecs(w)]
  /\ tfloor' = [tfloor EXCEPT ![t] = Max({0} \cup {x.value : x \in returned})]
  /\ tpc' = [tpc EXCEPT ![t] = "read"]
  /\ UNCHANGED <<lasttime, schedVars, contVars, tprev, tcalls, returned>>

\* prev = atomic_load (&lasttime)
ClockLoad(t) ==
  /\ tpc[t] = "read"
  /\ tprev' = [tprev EXCEPT ![t] = lasttime]
  /\ tpc' = [tpc EXCEPT ![t] = "loop"]
  /\ UNCHANGED <<lasttime, schedVars, contVars, tresult, tfloor, tcalls, returned>>

\* One iteration of the do loop whose compare-exchange succeeds: return.
ClockCasOk(t) ==
  LET r == BumpResult(tresult[t], tprev[t])
  IN  /\ tpc[t] = "loop"
      /\ lasttime = tprev[t]
      /\ lasttime' = r
      /\ tresult' = [tresult EXCEPT ![t] = r]
      /\ returned' = returned \cup {[thread |-> t, call |-> tcalls[t], value |-> r,
                                         floor |-> tfloor[t]]}
      /\ tcalls' = [tcalls EXCEPT ![t] = @ + 1]
      /\ tpc' = [tpc EXCEPT ![t] = "idle"]
      /\ UNCHANGED <<schedVars, contVars, tprev, tfloor>>

\* One iteration whose compare-exchange fails, because lasttime changed or
\* spuriously (the exchange is weak): prev is reloaded and the loop repeats.
ClockCasFail(t) ==
  LET r == BumpResult(tresult[t], tprev[t])
  IN  /\ tpc[t] = "loop"
      /\ tresult' = [tresult EXCEPT ![t] = r]
      /\ tprev' = [tprev EXCEPT ![t] = lasttime]
      /\ UNCHANGED <<lasttime, schedVars, contVars, tpc, tfloor, tcalls, returned>>

\* ------------------------------------------------- the scheduler
Periods == 1 .. MaxPeriod
Offsets == 0 .. MaxOffset
Repeats == 0 .. MaxRepeat

Next ==
  \/ SchedulerStart
  \/ SchedulerStop
  \/ \E period \in Periods, start \in Offsets, repeat \in Repeats :
       ScheduleCreateAlloc(NSched, MaxTime, period, start, repeat, FALSE)
  \/ \E s \in Sched : ScheduleCreateIdle(s)
  \/ \E s \in Sched : ScheduleAdd(s)
  \/ \E s \in Sched : ScheduleRemove(s)
  \/ \E s \in Sched : ScheduleReset(MaxTime, s)
  \/ \E s \in Sched : ScheduleDeleteUnlink(s)
  \/ \E s \in Sched : ScheduleDeleteFree(s)
  \/ DispInit(MaxTime)
  \/ DispStateWait
  \/ DispWake(MaxTime)
  \/ DispSpuriousWake(MaxTime)
  \/ DispFire
  \/ DispRequeue(MaxTime)
  \/ FreeStop
  \/ FreeDelete
  \/ FreeDrainQueue
  \/ FreeDrainIdle

Spec == Init /\ [][Next]_vars

NextClock ==
  \/ \E t \in Threads : ClockRead(t)
  \/ \E t \in Threads : ClockLoad(t)
  \/ \E t \in Threads : ClockCasOk(t)
  \/ \E t \in Threads : ClockCasFail(t)

SpecClock == Init /\ [][NextClock]_vars

\* C3: iot_time_nsecs is strictly increasing under concurrent calls: any two
\* completed calls returned different values, and a call returns a value
\* larger than every value returned before the call began, whatever the
\* wall clock does.
C3_StrictlyIncreasing ==
  /\ \A x \in returned : \A y \in returned :
        (x.thread # y.thread \/ x.call # y.call) => x.value # y.value
  /\ \A x \in returned : x.value > x.floor

\* Two threads have completed calls, and a call returned the value next to
\* one returned before it began (the wall clock stood still or went back).
C3_Witness ==
  /\ \E x \in returned : \E y \in returned : x.thread # y.thread
  /\ \E x \in returned : x.value = x.floor + 1
  /\ \E t \in Threads : tcalls[t] = MaxCalls

\* ============================================================ container
\* The working state of a call: the container, the config_fn invocations and
\* the iot_container_find_component requests seen so far, and whether the
\* holder bound was hit.
Work(c) == [c |-> c, calls |-> <<>>, reqs |-> {}, over |-> FALSE]

RECURSIVE Reverse(_)
Reverse(q) == IF q = <<>> THEN <<>> ELSE Append(Reverse(Tail(q)), Head(q))

\* The holders from h on, following next / prev.
RECURSIVE WalkNext(_, _)
WalkNext(c, h) == IF h = NULL THEN <<>> ELSE <<h>> \o WalkNext(c, c.next[h])

RECURSIVE WalkPrev(_, _)
WalkPrev(c, h) == IF h = NULL THEN <<>> ELSE <<h>> \o WalkPrev(c, c.prev[h])

Holders(c) == WalkNext(c, c.head)

RECURSIVE FindHolderFrom(_, _, _)
FindHolderFrom(c, h, name) ==
  IF h = NULL THEN NULL
  ELSE IF c.name[h] = name THEN h
  ELSE FindHolderFrom(c, c.next[h], name)

iot_container_find_holder_locked(c, name) == FindHolderFrom(c, c.head, name)

\* Lines 494-508 of iot_component_create: the new holder goes to the tail.
AppendHolder(c, cname) ==
  LET ch == CHOOSE h \in HolderIds : c.comp[h] = "none" /\
                \A g \in HolderIds : c.comp[g] = "none" => h <= g
  IN  IF c.head = NULL
        THEN [c EXCEPT !.comp[ch] = "INITIAL", !.name[ch] = cname,
                       !.next[ch] = NULL, !.prev[ch] = NULL,
                       !.head = ch, !.tail = ch]
        ELSE [c EXCEPT !.comp[ch] = "INITIAL", !.name[ch] = cname,
                       !.next = [@ EXCEPT ![ch] = NULL, ![c.tail] = ch],
                       !.prev[ch] = c.tail,
                       !.tail = ch]

HolderAvailable(c) == \E h \in HolderIds : c.comp[h] = "none"

OnStack(c, name) == \E i \in 1 .. Len(c.stack) : c.stack[i] = name

RECURSIVE iot_component_create(_, _)
RECURSIVE ConfigFn(_, _)
RECURSIVE FindComponent(_, _)
RECURSIVE iot_container_load_locked_NoPop(_, _)
RECURSIVE iot_container_load_locked(_, _)
RECURSIVE iot_container_typed_load(_, _)

\* iot_component_create: the configuration is parsed, config_fn is invoked,
\* and a non-NULL component gets a holder at the tail of the list.
iot_component_create(S, cname) ==
  IF cfg.kind[cname] \notin {"fails", "ok"} THEN S
  ELSE LET S1 == ConfigFn([S EXCEPT !.calls = Append(@, cname)], cfg.deps[cname])
       IN  IF cfg.kind[cname] # "ok" THEN S1
           ELSE IF ~ HolderAvailable(S1.c) THEN [S1 EXCEPT !.over = TRUE]
           ELSE [S1 EXCEPT !.c = AppendHolder(S1.c, cname)]

\* A factory's config_fn: it looks up the components it depends on.
ConfigFn(S, deps) ==
  IF deps = <<>> THEN S
  ELSE ConfigFn(FindComponent(S, Head(deps)), Tail(deps))

\* iot_container_typed_load, for the type that the entry of cname names.
iot_container_typed_load(S, cname) ==
  IF cfg.kind[cname] = "nofactory" THEN S
  ELSE IF cfg.kind[cname] = "noconfig" THEN S
  ELSE iot_component_create(S, cname)

\* iot_container_load_locked that leaves its own entry on
\* iot_load_in_progress.
iot_container_load_locked_NoPop(S, cname) ==
  IF iot_container_find_holder_locked(S.c, cname) # NULL THEN S
  ELSE IF OnStack(S.c, cname) THEN S
  ELSE LET this == S.c.stack
           S1 == [S EXCEPT !.c.stack = <<cname>> \o this]
       IN  IF cfg.parsed /\ cfg.kind[cname] # "absent"
             THEN iot_container_typed_load(S1, cname)
             ELSE S1

iot_container_load_locked(S, cname) ==
  IF iot_container_find_holder_locked(S.c, cname) # NULL THEN S
  ELSE IF OnStack(S.c, cname) THEN S
  ELSE LET this == S.c.stack
           S1 == [S EXCEPT !.c.stack = <<cname>> \o this]
           S2 == IF cfg.parsed /\ cfg.kind[cname] # "absent"
                   THEN iot_container_typed_load(S1, cname)
                   ELSE S1
       IN  [S2 EXCEPT !.c.stack = this]

\* iot_container_find_component, as called from the application or from a
\* config_fn; iot_config is set. The request is noted with the holder whose
\* component it returns (or NULL), whether name was on the in-progress stack
\* and whether a holder was created meanwhile.
FindComponent(S, name) ==
  LET S1 == IF iot_container_find_holder_locked(S.c, name) # NULL THEN S
            ELSE iot_container_load_locked(S, name)
      holder == iot_container_find_holder_locked(S1.c, name)
  IN  [S1 EXCEPT !.reqs = @ \cup
         {[name |-> name,
           onstack |-> OnStack(S.c, name),
           ret |-> holder,
           grew |-> Len(Holders(S1.c)) # Len(Holders(S.c)),
           depth |-> Len(S.c.stack)]}]

\* iot_container_remove_holder_locked that leaves cont->head alone.
iot_container_remove_holder_locked_KeepsHead(c, holder) ==
  LET n == c.next[holder]
      p == c.prev[holder]
  IN  [c EXCEPT !.prev = IF n # NULL THEN [@ EXCEPT ![n] = p] ELSE @,
                !.tail = IF n # NULL THEN @ ELSE p,
                !.next = IF p # NULL THEN [@ EXCEPT ![p] = n] ELSE @]

\* iot_container_remove_holder_locked that leaves cont->tail alone.
iot_container_remove_holder_locked_KeepsTail(c, holder) ==
  LET n == c.next[holder]
      p == c.prev[holder]
  IN  [c EXCEPT !.prev = IF n # NULL THEN [@ EXCEPT ![n] = p] ELSE @,
                !.next = IF p # NULL THEN [@ EXCEPT ![p] = n] ELSE @,
                !.head = IF p # NULL THEN @ ELSE n]

iot_container_remove_holder_locked(c, holder) ==
  LET n == c.next[holder]
      p == c.prev[holder]
  IN  [c EXCEPT !.prev = IF n # NULL THEN [@ EXCEPT ![n] = p] ELSE @,
                !.tail = IF n # NULL THEN @ ELSE p,
                !.next = IF p # NULL THEN [@ EXCEPT ![p] = n] ELSE @,
                !.head = IF p # NULL THEN @ ELSE n]

\* What an attempt of the load pass did for entry n, between S and S1.
Attempt(S, S1, n) ==
  LET hs == Holders(S1.c)
  IN  [name |-> n,
       invoked |-> Len(S1.calls) > Len(S.calls) /\ S1.calls[Len(S.calls) + 1] = n,
       appended |-> Len(hs) > Len(Holders(S.c)) /\ S1.c.name[hs[Len(hs)]] = n]

\* The entries of the container configuration map from name n on, in the
\* order of iteration.
RECURSIVE EntriesFrom(_)
EntriesFrom(n) ==
  IF n > NNames THEN <<>>
  ELSE IF cfg.kind[n] = "absent" THEN EntriesFrom(n + 1)
  ELSE <<n>> \o EntriesFrom(n + 1)

Entries == EntriesFrom(1)

\* iot_data_map_iter: the iterator stands before the first entry.
iot_data_map_iter == 0

\* iot_data_map_iter_next moves the iterator on; it returns false once the
\* entries are used up, and nothing sets the iterator back.
iot_data_map_iter_next(iter) == IF iter > Len(Entries) THEN iter ELSE iter + 1

IterValid(iter) == iter \in 1 .. Len(Entries)

\* Lines 692-704 of iot_container_init, compiled under
\* IOT_BUILD_DYNAMIC_LOAD: the pre-pass walks the iterator over every entry
\* (no library of the model provides a factory).
RECURSIVE PrePass(_)
PrePass(iter) ==
  LET it == iot_data_map_iter_next(iter)
  IN  IF IterValid(it) THEN PrePass(it) ELSE it

\* Lines 707-712 of iot_container_init: iot_container_typed_load for every
\* entry the iterator still yields; each attempt is noted with whether
\* config_fn was invoked for the entry and whether a holder of that name
\* was appended.
RECURSIVE InitLoop(_, _, _)
InitLoop(S, iter, acc) ==
  LET it == iot_data_map_iter_next(iter)
  IN  IF ~ IterValid(it) THEN [S |-> S, attempts |-> acc]
      ELSE LET S1 == iot_container_typed_load(S, Entries[it])
           IN  InitLoop(S1, it, Append(acc, Attempt(S, S1, Entries[it])))

\* iot_container_config
ContainerConfig(conf) ==
  /\ ~ cfg.set
  /\ cfg' = conf
  /\ UNCHANGED <<lasttime, schedVars, clockVars, cont, clog, reg, rthr, rlog>>

\* iot_container_init
ContainerInit ==
  LET iter == IF cfg.dynamic THEN PrePass(iot_data_map_iter)
              ELSE iot_data_map_iter
      r == IF cfg.parsed THEN InitLoop(Work(cont), iter, <<>>)
           ELSE [S |-> Work(cont), attempts |-> <<>>]
  IN  /\ cfg.set
      /\ ~ r.S.over
      /\ cont' = r.S.c
      /\ clog' = [NoLog EXCEPT !.op = "init", !.res = cfg.parsed,
                               !.calls = r.S.calls, !.reqs = r.S.reqs,
                               !.attempts = r.attempts]
      /\ UNCHANGED <<lasttime, schedVars, clockVars, cfg, reg, rthr, rlog>>

\* iot_container_find_component (cont, name), called by the application.
ContainerFindComponent(name) ==
  LET S == FindComponent(Work(cont), name)
  IN  /\ cfg.set
      /\ ~ S.over
      /\ cont' = S.c
      /\ clog' = [NoLog EXCEPT !.op = "find",
                               !.res = iot_container_find_holder_locked(S.c, name),
                               !.calls = S.calls, !.reqs = S.reqs]
      /\ UNCHANGED <<lasttime, schedVars, clockVars, cfg, reg, rthr, rlog>>

\* iot_container_add_component, with the type and configuration of cname.
ContainerAddComponent(cname) ==
  LET S == IF cfg.kind[cname] = "nofactory" THEN Work(cont)
           ELSE iot_component_create(Work(cont), cname)
  IN  /\ cfg.set
      /\ ~ S.over
      /\ cont' = S.c
      /\ clog' = [NoLog EXCEPT !.op = "add", !.calls = S.calls, !.reqs = S.reqs]
      /\ UNCHANGED <<lasttime, schedVars, clockVars, cfg, reg, rthr, rlog>>

\* iot_container_delete_component: the holder is unlinked, its component
\* stopped and freed, the holder freed.
ContainerDeleteComponent(name) ==
  LET holder == iot_container_find_holder_locked(cont, name)
      c1 == iot_container_remove_holder_locked(cont, holder)
  IN  /\ cfg.set
      /\ cont' = IF holder = NULL THEN cont
                 ELSE [c1 EXCEPT !.comp[holder] = "none", !.name[holder] = NULL,
                                 !.next[holder] = NULL, !.prev[holder] = NULL]
      /\ clog' = [NoLog EXCEPT
                    !.op = "delete", !.name = name, !.res = holder,
                    !.stopped = IF holder # NULL /\ cont.comp[holder] # "STOPPED"
                                  THEN <<holder>> ELSE <<>>,
                    !.freed = IF holder # NULL THEN <<holder>> ELSE <<>>]
      /\ UNCHANGED <<lasttime, schedVars, clockVars, cfg, reg, rthr, rlog>>

\* The components of a sequence of holders get state st.
SetComps(c, hs, st) ==
  [c EXCEPT !.comp = [h \in HolderIds |->
                        IF \E i \in 1 .. Len(hs) : hs[i] = h THEN st ELSE c.comp[h]]]

\* iot_container_start: start_fn from head along next.
ContainerStart ==
  LET hs == WalkNext(cont, cont.head)
  IN  /\ cfg.set
      /\ cont' = SetComps(cont, hs, "RUNNING")
      /\ clog' = [NoLog EXCEPT !.op = "start", !.run = "started", !.started = hs]
      /\ UNCHANGED <<lasttime, schedVars, clockVars, cfg, reg, rthr, rlog>>

\* iot_container_stop: stop_fn from tail along prev.
ContainerStop ==
  LET hs == WalkPrev(cont, cont.tail)
  IN  /\ cfg.set
      /\ cont' = SetComps(cont, hs, "STOPPED")
      /\ clog' = [NoLog EXCEPT !.op = "stop",
                    !.run = IF clog.run = "started" THEN "both" ELSE "none",
                    !.started = IF clog.run = "started" THEN clog.started ELSE <<>>,
                    !.stopped = hs]
      /\ UNCHANGED <<lasttime, schedVars, clockVars, cfg, reg, rthr, rlog>>

NextContainer ==
  \/ \E conf \in Configs : ContainerConfig(conf)
  \/ ContainerInit
  \/ \E n \in Names : ContainerFindComponent(n)
  \/ \E n \in Names : ContainerAddComponent(n)
  \/ \E n \in Names : ContainerDeleteComponent(n)
  \/ ContainerStart
  \/ ContainerStop

SpecContainer == Init /\ [][NextContainer]_vars

\* C13: iot_container_stop calls stop_fn on exactly the components on which
\* iot_container_start called start_fn, in the reverse order, for every
\* holder list that creations and deletions can build before the start.
C13_StopReversesStart ==
  clog.run = "both" =>
    /\ clog.stopped = Reverse(clog.started)
    /\ clog.started = Holders(cont)

\* A start and stop of a full list of holders built with a deletion.
C13_Witness ==
  /\ clog.run = "both"
  /\ Len(clog.started) = MaxHolders
  /\ clog.started[1] > clog.started[2]

\* C14: no two holders of the container have the same name.
C14_UniqueNames ==
  \A i \in 1 .. Len(Holders(cont)) : \A j \in 1 .. Len(Holders(cont)) :
    i # j => cont.name[Holders(cont)[i]] # cont.name[Holders(cont)[j]]

\* C16: a chained load through iot_container_find_component terminates; a
\* request for a name that is on the in-progress stack returns NULL and
\* creates no component, and the stack is empty when the outermost call
\* has returned.
C16_CyclesTerminate ==
  /\ cont.stack = <<>>
  /\ \A r \in clog.reqs : r.onstack => (r.ret = NULL /\ ~ r.grew)

\* A call has returned in which a config_fn, NNames loads deep, requested a
\* name that was being loaded, and every component was still created.
C16_Witness ==
  /\ \E r \in clog.reqs : r.onstack /\ r.depth = NNames
  /\ Len(Holders(cont)) = NNames

\* C19: iot_container_init processes every entry of the container
\* configuration: config_fn is invoked for each entry with a factory and a
\* configuration, a component it returns gets a holder, an entry that cannot
\* be created does not stop the others, and init returns true exactly when
\* the container configuration was parsed.
C19_InitProcessesAll ==
  clog.op = "init" =>
    /\ clog.res = cfg.parsed
    /\ cfg.parsed =>
         /\ \A n \in Names : cfg.kind[n] # "absent" =>
              \E i \in 1 .. Len(clog.attempts) : clog.attempts[i].name = n
         /\ \A i \in 1 .. Len(clog.attempts) :
              LET a == clog.attempts[i]
              IN  /\ a.invoked = (cfg.kind[a.name] \in {"fails", "ok"})
                  /\ a.appended = (cfg.kind[a.name] = "ok")

\* ============================================================= registry
\* The global list of containers: iot_container_alloc, iot_container_free.
\* The containers from c on, following next.
RECURSIVE RegWalk(_, _)
RegWalk(r, c) == IF c = NULL THEN <<>> ELSE <<c>> \o RegWalk(r, r.next[c])

\* iot_container_find_locked that looks at the first container only.
iot_container_find_locked_HeadOnly(r, name) ==
  IF r.head # NULL /\ r.name[r.head] = name THEN r.head ELSE NULL

iot_container_find_locked(r, name) ==
  LET l == RegWalk(r, r.head)
      hits == {i \in 1 .. Len(l) : r.name[l[i]] = name}
  IN  IF hits = {} THEN NULL ELSE l[Min(hits)]

ContAvailable(r) == \E c \in ContIds : r.name[c] = NULL

\* Lines 660-667 of iot_container_alloc: the new container goes to the head.
RegisterCont(r, name) ==
  LET c == Min({d \in ContIds : r.name[d] = NULL})
  IN  [r EXCEPT !.name[c] = name,
                !.next[c] = r.head,
                !.prev = IF r.head # NULL THEN [@ EXCEPT ![r.head] = c] ELSE @,
                !.head = c]

\* Lines 723-731 of iot_container_free.
UnregisterCont(r, c) ==
  LET n == r.next[c]
      p == r.prev[c]
  IN  [r EXCEPT !.prev = IF n # NULL THEN [@ EXCEPT ![n] = p] ELSE @,
                !.next = IF p # NULL THEN [@ EXCEPT ![p] = n] ELSE @,
                !.head = IF p # NULL THEN @ ELSE n]

\* A thread is inside iot_container_free (c).
BeingFreed(c) ==
  \E t \in Threads : rthr[t].pc \in {"free", "free_rest"} /\ rthr[t].arg = c

\* iot_container_alloc (name): pthread_mutex_lock.
ContainerAllocLock(t, name) ==
  /\ rthr[t].pc = "idle"
  /\ reg.mutex = NULL
  /\ reg' = [reg EXCEPT !.mutex = t]
  /\ rthr' = [rthr EXCEPT ![t] = [pc |-> "alloc", arg |-> name]]
  /\ UNCHANGED <<lasttime, schedVars, clockVars, cont, cfg, clog, rlog>>

\* iot_container_alloc: lines 658-670, the search, the registration and the
\* unlock.
ContainerAllocBody(t) ==
  LET name == rthr[t].arg
      found == iot_container_find_locked(reg, name)
      r1 == IF found = NULL THEN RegisterCont(reg, name) ELSE reg
  IN  /\ rthr[t].pc = "alloc"
      /\ found = NULL => ContAvailable(reg)
      /\ reg' = [r1 EXCEPT !.mutex = NULL]
      /\ rthr' = [rthr EXCEPT ![t] = NoRegCall]
      /\ rlog' = [alive |-> IF found = NULL THEN rlog.alive \cup {r1.head}
                            ELSE rlog.alive,
                  op |-> "alloc",
                  name |-> name,
                  res |-> IF found = NULL THEN r1.head ELSE NULL,
                  was |-> \E c \in rlog.alive : reg.name[c] = name,
                  same |-> r1 = reg]
      /\ UNCHANGED <<lasttime, schedVars, clockVars, cont, cfg, clog>>

\* iot_container_free (c), for a container that iot_container_alloc returned
\* and that no other call frees: pthread_mutex_lock.
ContainerFreeLock(t, c) ==
  /\ rthr[t].pc = "idle"
  /\ reg.name[c] # NULL
  /\ ~ BeingFreed(c)
  /\ reg.mutex = NULL
  /\ reg' = [reg EXCEPT !.mutex = t]
  /\ rthr' = [rthr EXCEPT ![t] = [pc |-> "free", arg |-> c]]
  /\ UNCHANGED <<lasttime, schedVars, clockVars, cont, cfg, clog, rlog>>

\* iot_container_free: lines 723-732, the unlinking and the unlock.
ContainerFreeUnlink(t) ==
  /\ rthr[t].pc = "free"
  /\ reg' = [UnregisterCont(reg, rthr[t].arg) EXCEPT !.mutex = NULL]
  /\ rthr' = [rthr EXCEPT ![t].pc = "free_rest"]
  /\ rlog' = [NoRegLog EXCEPT !.alive = rlog.alive \ {rthr[t].arg},
                              !.op = "free"]
  /\ UNCHANGED <<lasttime, schedVars, clockVars, cont, cfg, clog>>

\* iot_container_free: lines 733-743, the holders and the container are
\* freed.
ContainerFreeRest(t) ==
  LET c == rthr[t].arg
  IN  /\ rthr[t].pc = "free_rest"
      /\ reg' = [reg EXCEPT !.name[c] = NULL, !.next[c] = NULL,
                            !.prev[c] = NULL]
      /\ rthr' = [rthr EXCEPT ![t] = NoRegCall]
      /\ UNCHANGED <<lasttime, schedVars, clockVars, cont, cfg, clog, rlog>>

NextRegistry ==
  \/ \E t \in Threads : \E n \in Names : ContainerAllocLock(t, n)
  \/ \E t \in Threads : ContainerAllocBody(t)
  \/ \E t \in Threads : \E c \in ContIds : ContainerFreeLock(t, c)
  \/ \E t \in Threads : ContainerFreeUnlink(t)
  \/ \E t \in Threads : ContainerFreeRest(t)

SpecRegistry == Init /\ [][NextRegistry]_vars

\* C15: iot_container_alloc returns a container exactly when no container
\* of that name is registered, and leaves the list unchanged when it returns
\* NULL; under every interleaving of allocs and frees the list holds no two
\* containers of the same name and exactly the containers allocated and not
\* yet freed.
C15_RegistryExact ==
  LET l == RegWalk(reg, reg.head)
  IN  /\ \A i \in 1 .. Len(l) : \A j \in 1 .. Len(l) :
           i # j => reg.name[l[i]] # reg.name[l[j]]
      /\ {l[i] : i \in 1 .. Len(l)} = rlog.alive
      /\ rlog.op = "alloc" =>
           /\ (rlog.res # NULL) = (~ rlog.was)
           /\ rlog.res = NULL => rlog.same

\* An alloc of a registered name has returned NULL while another thread is
\* still inside iot_container_free, with NNames containers registered.
C15_Witness ==
  /\ rlog.op = "alloc"
  /\ rlog.res = NULL
  /\ rlog.was
  /\ Cardinality(rlog.alive) = NNames
  /\ \E t \in Threads : rthr[t].pc = "free_rest"

\* ------------------------------------------------------------ signals
\* Runs that observe every call that changes a map, with schedules that
\* repeat for ever.
NextSignal ==
  \/ SchedulerStart
  \/ SchedulerStop
  \/ \E start \in 0 .. MaxOffset :
       ScheduleCreateAlloc(NSched, MaxTime, 1, start, 0, FALSE)
  \/ \E s \in Sched : ScheduleCreateIdle(s)
  \/ \E s \in Sched : ScheduleAdd(s)
  \/ \E s \in Sched : ScheduleRemove(s)
  \/ \E s \in Sched : ScheduleReset(MaxTime, s)
  \/ \E s \in Sched : ScheduleDeleteUnlink(s)
  \/ \E s \in Sched : ScheduleDeleteFree(s)
  \/ DispInit(MaxTime)
  \/ DispStateWait
  \/ DispWake(MaxTime)
  \/ DispSpuriousWake(MaxTime)
  \/ DispFire
  \/ DispRequeue(MaxTime)

SpecSignal == InitApi /\ [][NextSignal]_vars

\* C21: a call of iot_schedule_add or iot_schedule_reset that updates the
\* due-time map signals the condition variable exactly when its schedule is
\* the front of the map after the update and the state is RUNNING; a call
\* that updates no map, or leaves its schedule behind the front, or is made
\* while the state is not RUNNING, sends no signal; iot_schedule_remove and
\* iot_schedule_delete never signal. (A signal that is sent reaches the
\* dispatcher if it is blocked in the timed wait.)
C21_SignalsExactlyOnFront ==
  [][\A s \in Sched :
       LET Calls(op) == ret' # ret /\ ret'.op = op /\ ret'.s = s
           Deletes == sch[s].status = "live" /\ sch'[s].status = "unlinked"
           Effect(sent) ==
             signalled' = (IF sent /\ dpc = "timed_wait" THEN TRUE ELSE signalled)
       IN  /\ Calls("add") =>
                /\ ret'.sig <=> (/\ ret'.val
                                 /\ iot_schedule_is_next(queue', s)
                                 /\ state = "RUNNING")
                /\ Effect(ret'.sig)
           /\ Calls("reset") =>
                /\ ret'.sig <=> (/\ sch[s].scheduled
                                 /\ iot_schedule_is_next(queue', s)
                                 /\ state = "RUNNING")
                /\ Effect(ret'.sig)
           /\ Calls("remove") => (~ ret'.sig /\ Effect(FALSE))
           /\ Deletes => Effect(FALSE)
    ]_vars

\* An add has put its schedule in front of a queued one while the scheduler
\* is RUNNING, and the waiting dispatcher has the signal.
C21_Witness ==
  /\ ret.op = "add" /\ ret.val /\ ret.sig
  /\ state = "RUNNING" /\ dpc = "timed_wait" /\ signalled
  /\ iot_schedule_is_next(queue, ret.s)
  /\ Cardinality(DOMAIN queue) = 2

\* ------------------------------------------------------ stop and start
\* iot_schedule_add called while the scheduler is INITIAL or STOPPED.
ScheduleAddStopped(s) == state # "RUNNING" /\ ScheduleAdd(s)

\* Runs in which schedules are only added while the scheduler is not
\* RUNNING.
NextRestart ==
  \/ SchedulerStart
  \/ SchedulerStop
  \/ \E start \in 0 .. MaxOffset, repeat \in 0 .. 1 :
       ScheduleCreateAlloc(NSched, MaxTime, 1, start, repeat, FALSE)
  \/ \E s \in Sched : ScheduleCreateIdle(s)
  \/ \E s \in Sched : ScheduleAddStopped(s)
  \/ DispInit(MaxTime)
  \/ DispStateWait
  \/ DispWake(MaxTime)
  \/ DispSpuriousWake(MaxTime)
  \/ DispFire
  \/ DispRequeue(MaxTime)

SpecRestart == Init /\ [][NextRestart]_vars

\* C22: a schedule added while the scheduler is not RUNNING is dispatched,
\* after the next start, as soon as its start has elapsed: when the
\* dispatcher passes the state wait and enters its timed wait, a wake-up
\* time that has not elapsed yet is not later than the start of the front
\* of the due-time map.
C22_NoStaleWakeAfterStart ==
  [][(/\ dpc = "state_wait" /\ dpc' = "timed_wait"
      /\ DOMAIN queue # {}
      /\ ~ TimespecLE(schd_time, nsToTimespec(lasttime)))
       => TimespecLE(schd_time, nsToTimespec(Min(DOMAIN queue)))]_vars

\* ------------------------------------------------------------ shutdown
\* Runs with iot_scheduler_free, in which the dispatcher thread is scheduled
\* fairly and a wake-up that is due is delivered. The clock bound leaves
\* room for the dispatcher's first clock read (line 112).
NextShutdown ==
  \/ SchedulerStart
  \/ SchedulerStop
  \/ \E start \in 0 .. MaxOffset, repeat \in 0 .. 1 :
       ScheduleCreateAlloc(NSched, MaxTime - 1, 1, start, repeat, FALSE)
  \/ \E s \in Sched : ScheduleCreateIdle(s)
  \/ \E s \in Sched : ScheduleAdd(s)
  \/ DispInit(MaxTime)
  \/ DispStateWait
  \/ DispWake(MaxTime - 1)
  \/ DispSpuriousWake(MaxTime - 1)
  \/ DispFire
  \/ DispRequeue(MaxTime - 1)
  \/ FreeStop
  \/ FreeDelete
  \/ FreeDrainQueue
  \/ FreeDrainIdle

SpecShutdown ==
  /\ Init
  /\ [][NextShutdown]_vars
  /\ WF_vars(DispInit(MaxTime))
  /\ WF_vars(DispStateWait)
  /\ WF_vars(DispWake(MaxTime - 1))

\* C23: once iot_scheduler_free has set the state to DELETED, the dispatcher
\* thread eventually terminates, wherever it is in its loop.
C23_DispatcherTerminates == (state = "DELETED") ~> (dpc = "exited")

\* The dispatcher has terminated after a wake-up from its timed wait (it
\* released the mutex at line 125), with a dispatched schedule still queued.
C23_Witness ==
  /\ state = "DELETED" /\ dpc = "exited" /\ mutex = "free"
  /\ \E s \in Sched : InQueue(s) /\ gh[s].attempts > 0

\* C24: when iot_scheduler_free starts draining the maps, the dispatcher
\* thread (once it has entered its loop) has already exited, so that nothing
\* of the dispatcher runs after the drain has begun.
C24_DrainAfterExit ==
  (fpc \in {"drained_queue", "done"} /\ dpc # "start") => dpc = "exited"

\* --------------------------------------------------------- re-queueing
\* C25: each time the dispatcher re-queues a schedule after a dispatch
\* attempt, the new start is later than the time of the dispatch plus the
\* period and later than the previous start, whatever the wall clock
\* reports.
C25_RequeueAdvances ==
  [][\A s \in Sched :
       (dpc = "requeue" /\ current = s /\ dpc' # "requeue" /\ InQueue(s)') =>
         /\ sch'[s].start > sch[s].start
         /\ sch'[s].start > lasttime + sch[s].period
    ]_vars

\* A schedule has been re-queued after a dispatch at a start that no reading
\* of the wall clock accounts for: the clock stood behind the time last
\* returned.
C25_Witness ==
  \E s \in Sched :
    /\ Live(s) /\ InQueue(s) /\ ~ Dispatching
    /\ gh[s].attempts = 1
    /\ sch[s].start > MaxWall + sch[s].period + 1

\* ------------------------------------------------- component deletion
\* C26: iot_container_delete_component for a name present in the container
\* unlinks exactly the first holder of that name (the other holders keep
\* their order, and head and tail stay consistent), calls stop_fn on its
\* component if and only if the component is not STOPPED, and then calls
\* free_fn on it once; for a name that is not present it changes nothing and
\* calls no component function.
C26_DeleteComponentEffect ==
  [][(clog'.op = "delete" /\ cfg' = cfg) =>
       LET hs == Holders(cont)
           hits == {i \in 1 .. Len(hs) : cont.name[hs[i]] = clog'.name}
       IN  IF hits = {}
             THEN /\ cont' = cont
                  /\ clog'.res = NULL
                  /\ clog'.stopped = <<>>
                  /\ clog'.freed = <<>>
             ELSE LET h == hs[Min(hits)]
                  IN  /\ clog'.res = h
                      /\ Holders(cont') = SeqRemove(hs, h)
                      /\ WalkPrev(cont', cont'.tail) = Reverse(Holders(cont'))
                      /\ \A g \in HolderIds \ {h} :
                           /\ cont'.name[g] = cont.name[g]
                           /\ cont'.comp[g] = cont.comp[g]
                      /\ clog'.stopped =
                           (IF cont.comp[h] = "STOPPED" THEN <<>> ELSE <<h>>)
                      /\ clog'.freed = <<h>>
    ]_vars

\* A stopped component has been deleted from the middle of the list without
\* a call of its stop_fn.
C26_Witness ==
  /\ clog.op = "delete"
  /\ clog.res # NULL /\ clog.res \notin {cont.head, cont.tail}
  /\ clog.stopped = <<>> /\ clog.freed = <<clog.res>>
  /\ Len(Holders(cont)) = MaxHolders - 1
  /\ cont.head > cont.tail

\* ------------------------------------------------- the container lock
\* Calls on one container made by several threads. rthr [t].pc tells what
\* thread t holds and does: "rd_read" (read lock, walking the list),
\* "rd_write" (read lock, appending), "wr_read" and "wr_write" (write lock),
\* "no_write" (no lock, appending). A data race has no defined outcome: the
\* runs are followed up to the first one.
Writing(t) == rthr[t].pc \in {"rd_write", "wr_write", "no_write"}

Raced == \E t \in Threads, u \in Threads : t # u /\ Writing(t) /\ rthr[u].pc # "idle"

\* pthread_rwlock_rdlock / pthread_rwlock_wrlock on cont->lock can be taken
\* by thread t.
CanLock(t, kind) ==
  \A u \in Threads \ {t} :
    IF kind = "rd" THEN rthr[u].pc \notin {"wr_read", "wr_write"}
    ELSE rthr[u].pc \in {"idle", "no_write"}

\* iot_container_start, iot_container_stop, iot_container_list_components:
\* the read lock is taken and the walk from head (or tail) begins.
ContainerReadLock(t, op) ==
  /\ cfg.set /\ ~ Raced
  /\ rthr[t].pc = "idle"
  /\ CanLock(t, "rd")
  /\ rthr' = [rthr EXCEPT ![t] = [pc |-> "rd_read", arg |-> [op |-> op, name |-> NULL]]]
  /\ UNCHANGED <<lasttime, schedVars, clockVars, cont, cfg, clog, reg, rlog>>

\* The walk has reached the end of the list; the lock is released.
ContainerReadUnlock(t) ==
  LET op == rthr[t].arg.op
      hs == Holders(cont)
  IN  /\ ~ Raced
      /\ rthr[t].pc = "rd_read"
      /\ op \in {"start", "stop", "list"}
      /\ cont' = IF op = "start" THEN SetComps(cont, hs, "RUNNING")
                 ELSE IF op = "stop" THEN SetComps(cont, hs, "STOPPED")
                 ELSE cont
      /\ clog' = [NoLog EXCEPT !.op = op]
      /\ rthr' = [rthr EXCEPT ![t] = NoRegCall]
      /\ UNCHANGED <<lasttime, schedVars, clockVars, cfg, reg, rlog>>

\* iot_container_find_component: the read lock is taken (line 830) and
\* iot_container_find_holder_locked begins.
ContainerFindLock(t, name) ==
  /\ cfg.set /\ ~ Raced
  /\ rthr[t].pc = "idle"
  /\ CanLock(t, "rd")
  /\ rthr' = [rthr EXCEPT ![t] = [pc |-> "rd_read", arg |-> [op |-> "find", name |-> name]]]
  /\ UNCHANGED <<lasttime, schedVars, clockVars, cont, cfg, clog, reg, rlog>>

\* Lines 831-834: with a holder found, or nothing to load, the lock is
\* released; otherwise iot_container_load_locked goes on to
\* iot_component_create, still under the read lock.
ContainerFindLoad(t) ==
  LET S == FindComponent(Work(cont), rthr[t].arg.name)
  IN  /\ ~ Raced
      /\ rthr[t].pc = "rd_read"
      /\ rthr[t].arg.op = "find"
      /\ ~ S.over
      /\ IF S.c = cont
           THEN /\ rthr' = [rthr EXCEPT ![t] = NoRegCall]
                /\ clog' = [NoLog EXCEPT !.op = "find", !.name = rthr[t].arg.name,
                              !.res = iot_container_find_holder_locked(cont, rthr[t].arg.name)]
           ELSE /\ rthr' = [rthr EXCEPT ![t].pc = "rd_write"]
                /\ clog' = clog
      /\ UNCHANGED <<lasttime, schedVars, clockVars, cont, cfg, reg, rlog>>

\* Lines 494-508 reached from iot_container_find_component: the holders are
\* appended, then the lock is released (line 838).
ContainerFindAppend(t) ==
  LET S == FindComponent(Work(cont), rthr[t].arg.name)
  IN  /\ ~ Raced
      /\ rthr[t].pc = "rd_write"
      /\ ~ S.over
      /\ cont' = S.c
      /\ clog' = [NoLog EXCEPT !.op = "find", !.name = rthr[t].arg.name,
                    !.res = iot_container_find_holder_locked(S.c, rthr[t].arg.name),
                    !.calls = S.calls, !.reqs = S.reqs]
      /\ rthr' = [rthr EXCEPT ![t] = NoRegCall]
      /\ UNCHANGED <<lasttime, schedVars, clockVars, cfg, reg, rlog>>

\* iot_container_add_component for a component that config_fn returns: it
\* takes no lock; iot_component_create starts to append.
ContainerAddEnter(t, cname) ==
  /\ cfg.set /\ ~ Raced
  /\ rthr[t].pc = "idle"
  /\ cfg.kind[cname] = "ok"
  /\ HolderAvailable(cont)
  /\ rthr' = [rthr EXCEPT ![t] = [pc |-> "no_write", arg |-> [op |-> "add", name |-> cname]]]
  /\ UNCHANGED <<lasttime, schedVars, clockVars, cont, cfg, clog, reg, rlog>>

\* Lines 494-508 reached from iot_container_add_component.
ContainerAddAppend(t) ==
  LET S == iot_component_create(Work(cont), rthr[t].arg.name)
  IN  /\ ~ Raced
      /\ rthr[t].pc = "no_write"
      /\ ~ S.over
      /\ cont' = S.c
      /\ clog' = [NoLog EXCEPT !.op = "add", !.name = rthr[t].arg.name,
                               !.calls = S.calls, !.reqs = S.reqs]
      /\ rthr' = [rthr EXCEPT ![t] = NoRegCall]
      /\ UNCHANGED <<lasttime, schedVars, clockVars, cfg, reg, rlog>>

\* iot_container_delete_component: the write lock is taken (line 866) and
\* iot_container_find_holder_locked begins.
ContainerDeleteLock(t, name) ==
  /\ cfg.set /\ ~ Raced
  /\ rthr[t].pc = "idle"
  /\ CanLock(t, "wr")
  /\ rthr' = [rthr EXCEPT ![t] = [pc |-> "wr_read", arg |-> [op |-> "delete", name |-> name]]]
  /\ UNCHANGED <<lasttime, schedVars, clockVars, cont, cfg, clog, reg, rlog>>

\* Lines 867-870: with no holder found the lock is released; otherwise
\* iot_container_remove_holder_locked begins.
ContainerDeleteFound(t) ==
  /\ ~ Raced
  /\ rthr[t].pc = "wr_read"
  /\ IF iot_container_find_holder_locked(cont, rthr[t].arg.name) = NULL
       THEN /\ rthr' = [rthr EXCEPT ![t] = NoRegCall]
            /\ clog' = [NoLog EXCEPT !.op = "delete", !.name = rthr[t].arg.name]
       ELSE /\ rthr' = [rthr EXCEPT ![t].pc = "wr_write"]
            /\ clog' = clog
  /\ UNCHANGED <<lasttime, schedVars, clockVars, cont, cfg, reg, rlog>>

\* Lines 870-879: the holder is unlinked and freed, the lock released.
ContainerDeleteUnlink(t) ==
  /\ ~ Raced
  /\ rthr[t].pc = "wr_write"
  /\ LET holder == iot_container_find_holder_locked(cont, rthr[t].arg.name)
         c1 == iot_container_remove_holder_locked(cont, holder)
     IN  /\ cont' = [c1 EXCEPT !.comp[holder] = "none", !.name[holder] = NULL,
                               !.next[holder] = NULL, !.prev[holder] = NULL]
         /\ clog' = [NoLog EXCEPT
                       !.op = "delete", !.name = rthr[t].arg.name, !.res = holder,
                       !.stopped = IF cont.comp[holder] # "STOPPED"
                                     THEN <<holder>> ELSE <<>>,
                       !.freed = <<holder>>]
  /\ rthr' = [rthr EXCEPT ![t] = NoRegCall]
  /\ UNCHANGED <<lasttime, schedVars, clockVars, cfg, reg, rlog>>

NextLock ==
  \/ \E conf \in Configs :
       /\ conf.parsed /\ ~ conf.dynamic
       /\ \A n \in Names : conf.deps[n] = <<>> /\ conf.kind[n] \in {"absent", "ok"}
       /\ ContainerConfig(conf)
  \/ \E t \in Threads : \E op \in {"start", "stop", "list"} : ContainerReadLock(t, op)
  \/ \E t \in Threads : ContainerReadUnlock(t)
  \/ \E t \in Threads : \E n \in Names : ContainerFindLock(t, n)
  \/ \E t \in Threads : ContainerFindLoad(t)
  \/ \E t \in Threads : ContainerFindAppend(t)
  \/ \E t \in Threads : \E n \in Names : ContainerAddEnter(t, n)
  \/ \E t \in Threads : ContainerAddAppend(t)
  \/ \E t \in Threads : \E n \in Names : ContainerDeleteLock(t, n)
  \/ \E t \in Threads : ContainerDeleteFound(t)
  \/ \E t \in Threads : ContainerDeleteUnlink(t)

SpecLock == Init /\ [][NextLock]_vars

\* C27: the holder list of a container is never modified by one thread
\* while another thread walks or modifies it: a thread that appends to the
\* list or unlinks from it excludes every other reader and writer.
C27_ListAccessExclusive ==
  \A t \in Threads : Writing(t) => \A u \in Threads \ {t} : rthr[u].pc = "idle"


\* C28: the dispatcher thread does not hold the scheduler mutex when it
\* terminates: on each exit path of its loop the mutex taken by the state
\* wait has been released.
C28_ExitReleasesMutex == dpc = "exited" => mutex # "dispatcher"


\* ------------------------------------------------ lifetime of a schedule
\* Runs in which schedules with a finite repeat count are created, added,
\* removed, reset and dispatched, long enough for a schedule to be added
\* again after its last repetition.
NextLifetime ==
  \/ SchedulerStart
  \/ \E repeat \in RepeatCounts :
       ScheduleCreateAlloc(NSched, RepeatCap, 1, 0, repeat, FALSE)
  \/ \E s \in Sched : ScheduleCreateIdle(s)
  \/ \E s \in Sched : ScheduleAdd(s)
  \/ \E s \in Sched : ScheduleRemove(s)
  \/ \E s \in Sched : ScheduleReset(RepeatCap, s)
  \/ DispInit(RepeatCap)
  \/ DispStateWait
  \/ DispWake(RepeatCap)
  \/ DispSpuriousWake(RepeatCap)
  \/ DispFire
  \/ DispRequeue(RepeatCap)

SpecLifetime == Init /\ [][NextLifetime]_vars

\* C29: a schedule created with repeat = R > 0 gets at most R dispatch
\* attempts over its lifetime, whatever iot_schedule_add, iot_schedule_remove
\* and iot_schedule_reset calls are made, an iot_schedule_add after the
\* dispatcher moved it to the idle map on its last repetition included.
C29_AtMostRepeatAttempts ==
  \A s \in Sched :
    (Live(s) /\ gh[s].initRepeat > 0) => gh[s].attempts <= gh[s].initRepeat

====
